---------------------------- MODULE Spec2Model ----------------------------
(***************************************************************************)
(* The worker side of the Majordomo protocol, src/mdp/worker.py            *)
(* (class MDPWorker), as a state machine.                                  *)
(*                                                                         *)
(* The worker's attributes are the variables.  Every callback of the       *)
(* event loop (_tick, the delayed _create_stream, _on_message) and every   *)
(* public method (reply, shutdown) is one action: the event loop is        *)
(* single threaded, so a callback runs to its end before the next starts.  *)
(* Each method is an operator from a record of the worker's fields to the  *)
(* record after the call; an exception leaves the fields as they were at   *)
(* the raising statement and is recorded in err.                           *)
(***************************************************************************)
EXTENDS Integers, Sequences, FiniteSets, TLC

VARIABLES
    stream,          \* self.stream: "None" or "open"
    ticker,          \* self.ticker: "None" or "running"
    _delayed_cb,     \* self._delayed_cb: "None", "pending" (armed) or "fired"
    need_handshake,  \* self.need_handshake
    curr_liveness,   \* self.curr_liveness
    envelope,        \* self.envelope: [kind |-> "unset" | "None" | "list", frames]
    timed_out,       \* self.timed_out: "unset" or "False"
    connected,       \* self.connected: "unset" or "False"
    nOpen,           \* transport: sockets created and not closed
    nTickers,        \* scheduler: PeriodicCallbacks started and not stopped
    closeCount,      \* transport: closes since the last _create_stream
    armCount,        \* scheduler: DelayedCallbacks started since the last _create_stream
    firstSent,       \* transport: command of the first frame list sent on the latest channel
    readyCount,      \* transport: READY frame lists sent on the latest channel
    envChan,         \* channel the envelope was captured on: "none", "current", "earlier"
    overwrote,       \* the last operation replaced an envelope no reply had consumed
    out,             \* frame lists handed to send_multipart by the last operation
    calls,           \* bodies handed to on_request by the last operation
    err,             \* exception the last operation raised, "none" if none
    lastOp,          \* the last operation
    lastMsg,         \* its inbound frame list when it was _on_message
    lastBody,        \* its argument when it was reply
    quiet,           \* ticks since the last _create_stream, -1 once a message or shutdown came
    sinceDisc,       \* 0 right after a DISCONNECT, 1 when the next callback was a tick,
                     \* 2 when it was a frame list with another command, 3 after 2 and a tick, else -1
    discFrom         \* curr_liveness before that DISCONNECT, else -1

vars == <<stream, ticker, _delayed_cb, need_handshake, curr_liveness, envelope,
          timed_out, connected, nOpen, nTickers, closeCount, armCount,
          firstSent, readyCount, envChan, overwrote,
          out, calls, err, lastOp, lastMsg, lastBody, quiet, sinceDisc, discFrom>>

---------------------------------------------------------------------------
(* Program constants *)

HB_LIVENESS == 3

_proto_version == "MDPW01"

READY == "x01"

REQUEST == "x02"

REPLY == "x03"

HEARTBEAT == "x04"

DISCONNECT == "x05"

---------------------------------------------------------------------------
(* Bounds of the inputs *)

MaxAddr == 2

MaxBody == 2

AddrFrames == {"A1", "A2"}

BodyFrames == {"", "B1"}

SeqsUpTo(S, n) == UNION {[1..k -> S] : k \in 0..n}

AddrSeqs == SeqsUpTo(AddrFrames, MaxAddr)

BodySeqs == SeqsUpTo(BodyFrames, MaxBody)

---------------------------------------------------------------------------
(* Messages *)

ReadyMsg(service) == <<"", _proto_version, READY, service>>

HeartbeatMsg == <<"", _proto_version, HEARTBEAT>>

Service == "echo"

\* The envelope attribute: never assigned by __init__, None after reply,
\* a list after a REQUEST.
Unset == [kind |-> "unset", frames |-> <<>>]

None == [kind |-> "None", frames |-> <<>>]

List(fr) == [kind |-> "list", frames |-> fr]

\* util.split_address: the frames before the first empty frame, and the
\* frames after it.
RECURSIVE split_address(_)
split_address(msg) ==
    IF msg = <<>> THEN [addr |-> <<>>, body |-> <<>>]
    ELSE IF Head(msg) = "" THEN [addr |-> <<>>, body |-> Tail(msg)]
    ELSE LET r == split_address(Tail(msg))
         IN  [addr |-> <<Head(msg)>> \o r.addr, body |-> r.body]

---------------------------------------------------------------------------
(* The worker's methods, on the record of its fields *)

Self ==
    [stream |-> stream, ticker |-> ticker, _delayed_cb |-> _delayed_cb,
     need_handshake |-> need_handshake, curr_liveness |-> curr_liveness,
     envelope |-> envelope, timed_out |-> timed_out, connected |-> connected,
     nOpen |-> nOpen, nTickers |-> nTickers, closeCount |-> closeCount,
     armCount |-> armCount, firstSent |-> firstSent,
     readyCount |-> readyCount, envChan |-> envChan, overwrote |-> overwrote,
     out |-> out, calls |-> calls, err |-> err]

\* The start of a call: nothing sent, no handler call, no exception yet.
Begin(s) ==
    [s EXCEPT !.out = <<>>, !.calls = <<>>, !.err = "none", !.overwrote = FALSE]

\* stream.send_multipart(msg); self.stream is None raises AttributeError.
send_multipart(s, msg) ==
    IF s.stream = "None" THEN [s EXCEPT !.err = "AttributeError"]
    ELSE [s EXCEPT !.out = Append(@, msg),
                   !.firstSent = IF @ = "none" THEN msg[3] ELSE @,
                   !.readyCount = IF msg[3] = READY THEN @ + 1 ELSE @]

\* Mutant: a heartbeat goes out before the READY.
_send_ready_HbFirst(s) ==
    LET s1 == send_multipart(send_multipart(s, HeartbeatMsg), ReadyMsg(Service))
    IN  IF s1.err # "none" THEN s1
        ELSE [s1 EXCEPT !.curr_liveness = HB_LIVENESS]

_send_ready(s) ==
    LET s1 == send_multipart(s, ReadyMsg(Service))
    IN  IF s1.err # "none" THEN s1
        ELSE [s1 EXCEPT !.curr_liveness = HB_LIVENESS]

_create_stream(s) ==
    LET s1 == [s EXCEPT !.stream = "open", !.nOpen = @ + 1,
                        !.closeCount = 0, !.armCount = 0,
                        !.firstSent = "none", !.readyCount = 0,
                        !.envChan = IF @ = "current" THEN "earlier" ELSE @]
        s2 == _send_ready(s1)
    IN  [s2 EXCEPT !.ticker = "running", !.nTickers = @ + 1]

send_hb(s) == send_multipart(s, HeartbeatMsg)

\* Mutant: shutdown leaves the ticker running.
StopTicker_Forgot(s) == s

StopTicker(s) ==
    IF s.ticker # "None"
    THEN [s EXCEPT !.ticker = "None", !.nTickers = @ - 1]
    ELSE s

\* Mutant: the early return of line 141 is missing: closing None raises.
shutdown_NoGuard(s) ==
    LET s1 == StopTicker(s)
    IN  IF s1.stream = "None" THEN [s1 EXCEPT !.err = "AttributeError"]
        ELSE [s1 EXCEPT !.stream = "None", !.nOpen = @ - 1,
                        !.closeCount = @ + 1,
                        !.timed_out = "False",
                        !.need_handshake = TRUE,
                        !.connected = "False"]

shutdown(s) ==
    LET s1 == StopTicker(s)
    IN  IF s1.stream = "None" THEN s1
        ELSE [s1 EXCEPT !.stream = "None", !.nOpen = @ - 1,
                        !.closeCount = @ + 1,
                        !.timed_out = "False",
                        !.need_handshake = TRUE,
                        !.connected = "False"]

\* Mutant: the DelayedCallback is created but never started.
ArmReconnect_NotStarted(s) == s

ArmReconnect(s) == [s EXCEPT !._delayed_cb = "pending", !.armCount = @ + 1]

\* Mutant: the comparison of line 116 as > instead of >=.
IsDead_OffByOne(liveness) == ~(liveness > 0)

\* Mutant: the connection counts as dead one tick too late.
IsDead_Late(liveness) == liveness < -1

IsDead(liveness) == ~(liveness >= 0)

\* Mutant: the dead tick arms the reconnect without shutting down first.
_tick_NoShutdown(s) ==
    LET s1 == [s EXCEPT !.curr_liveness = @ - 1]
        s2 == send_hb(s1)
    IN  IF s2.err # "none" THEN s2
        ELSE IF ~IsDead(s2.curr_liveness) THEN s2
        ELSE ArmReconnect(s2)

\* Mutant: the liveness test comes first and a dead tick sends no heartbeat.
_tick_CheckFirst(s) ==
    LET s1 == [s EXCEPT !.curr_liveness = @ - 1]
    IN  IF ~IsDead(s1.curr_liveness) THEN send_hb(s1)
        ELSE ArmReconnect(shutdown(s1))

_tick(s) ==
    LET s1 == [s EXCEPT !.curr_liveness = @ - 1]
        s2 == send_hb(s1)
    IN  IF s2.err # "none" THEN s2
        ELSE IF ~IsDead(s2.curr_liveness) THEN s2
        ELSE ArmReconnect(shutdown(s2))

\* Mutant: the empty delimiter is not appended to the address frames.
MakeEnvelope_NoDelim(addr) == <<"", _proto_version, REPLY>> \o addr

\* The REPLY envelope built from the address frames of a REQUEST.
MakeEnvelope(addr) == <<"", _proto_version, REPLY>> \o (addr \o <<"">>)

\* Mutant: DISCONNECT leaves one tick of liveness.
OnDisconnect_One(s) == [s EXCEPT !.curr_liveness = 1]

OnDisconnect(s) == [s EXCEPT !.curr_liveness = 0]

\* Mutant: a REQUEST that finds an unconsumed envelope keeps it.
OnRequest_KeepFirst(s, rest) ==
    LET sp == split_address(rest)
    IN  IF s.envelope.kind = "list"
        THEN [s EXCEPT !.calls = Append(@, sp.body)]
        ELSE [s EXCEPT !.envelope = List(MakeEnvelope(sp.addr)),
                       !.envChan = "current",
                       !.calls = Append(@, sp.body)]

OnRequest(s, rest) ==
    LET sp == split_address(rest)
    IN  [s EXCEPT !.envelope = List(MakeEnvelope(sp.addr)),
                  !.envChan = "current",
                  !.overwrote = (s.envelope.kind = "list"),
                  !.calls = Append(@, sp.body)]

\* Mutant: a counter that a DISCONNECT took to 0 is not revived.
ResetLiveness_OnlyIfAlive(s) ==
    [s EXCEPT !.need_handshake = FALSE,
              !.curr_liveness = IF @ > 0 THEN HB_LIVENESS ELSE @]

\* Mutant: the liveness counter is not reset on receipt.
ResetLiveness_NoReset(s) == [s EXCEPT !.need_handshake = FALSE]

ResetLiveness(s) ==
    [s EXCEPT !.need_handshake = FALSE, !.curr_liveness = HB_LIVENESS]

\* Mutant: every other command is answered with a heartbeat.
OnOther_SendsHb(s) == send_hb(s)

\* Any other message type: ignored.
OnOther(s) == s

\* The three msg.pop(0) need three frames; pop from an empty list raises
\* IndexError before any attribute is assigned.
_on_message(s, msg) ==
    IF Len(msg) < 3 THEN [s EXCEPT !.err = "IndexError"]
    ELSE LET msg_type == msg[3]
             rest == SubSeq(msg, 4, Len(msg))
             s1 == ResetLiveness(s)
         IN  IF msg_type = DISCONNECT THEN OnDisconnect(s1)
             ELSE IF msg_type = REQUEST THEN OnRequest(s1, rest)
             ELSE OnOther(s1)

\* Mutant: extend also for a single byte-string, which adds its characters.
BodyOf_AlwaysExtend(msg) ==
    IF msg.isList THEN msg.items
    ELSE IF msg.unit = "R1" THEN <<"R", "1">> ELSE <<>>

\* The frames reply adds to the envelope: extend for a list, append for a
\* single byte-string.
BodyOf(msg) == IF msg.isList THEN msg.items ELSE <<msg.unit>>

\* self.envelope is read first (AttributeError when it was never
\* assigned), then set to None, then extended (AttributeError on None),
\* then sent (AttributeError when self.stream is None).
reply(s, msg) ==
    IF s.envelope.kind = "unset" THEN [s EXCEPT !.err = "AttributeError"]
    ELSE LET to_send == s.envelope
             s1 == [s EXCEPT !.envelope = None, !.envChan = "none"]
         IN  IF to_send.kind = "None" THEN [s1 EXCEPT !.err = "AttributeError"]
             ELSE send_multipart(s1, to_send.frames \o BodyOf(msg))

---------------------------------------------------------------------------
(* Inputs *)

Tags == {_proto_version, "XXXX"}

Commands == {READY, REQUEST, REPLY, HEARTBEAT, DISCONNECT, "x09"}

Request(tag, A, B) == <<"", tag, REQUEST>> \o A \o <<"">> \o B

ShortMsgs == {<<>>, <<"">>, <<"", _proto_version>>}

InMsgs ==
    ShortMsgs
    \cup {<<"", tag, c>> : tag \in Tags, c \in Commands}
    \cup {Request(_proto_version, A, B) : A \in AddrSeqs, B \in BodySeqs}
    \cup {Request(tag, A, <<>>) : tag \in Tags, A \in AddrSeqs}
    \cup {<<"", _proto_version, REQUEST>> \o A : A \in AddrSeqs}

LiveMsgs ==
    {<<"">>}
    \cup {<<"", _proto_version, c>> : c \in Commands}
    \cup {Request(_proto_version, A, <<"B1">>) : A \in {<<>>, <<"A1">>}}

ReplyArgs ==
    {[isList |-> TRUE, unit |-> "", items |-> it] :
        it \in {<<>>, <<"R1">>, <<"R1", "R2">>}}
    \cup {[isList |-> FALSE, unit |-> "R1", items |-> <<>>]}

NoArg == [isList |-> TRUE, unit |-> "", items |-> <<>>]

---------------------------------------------------------------------------
(* The state machine *)

Commit(s) ==
    /\ stream' = s.stream
    /\ ticker' = s.ticker
    /\ _delayed_cb' = s._delayed_cb
    /\ need_handshake' = s.need_handshake
    /\ curr_liveness' = s.curr_liveness
    /\ envelope' = s.envelope
    /\ timed_out' = s.timed_out
    /\ connected' = s.connected
    /\ nOpen' = s.nOpen
    /\ nTickers' = s.nTickers
    /\ closeCount' = s.closeCount
    /\ armCount' = s.armCount
    /\ firstSent' = s.firstSent
    /\ readyCount' = s.readyCount
    /\ envChan' = s.envChan
    /\ overwrote' = s.overwrote
    /\ out' = s.out
    /\ calls' = s.calls
    /\ err' = s.err

\* __init__: the attributes, then _create_stream.
Constructed ==
    _create_stream(
        [stream |-> "None", ticker |-> "None", _delayed_cb |-> "None",
         need_handshake |-> TRUE, curr_liveness |-> 0,
         envelope |-> Unset, timed_out |-> "unset", connected |-> "unset",
         nOpen |-> 0, nTickers |-> 0, closeCount |-> 0, armCount |-> 0,
         firstSent |-> "none", readyCount |-> 0, envChan |-> "none",
         overwrote |-> FALSE,
         out |-> <<>>, calls |-> <<>>, err |-> "none"])

Init ==
    /\ stream = Constructed.stream
    /\ ticker = Constructed.ticker
    /\ _delayed_cb = Constructed._delayed_cb
    /\ need_handshake = Constructed.need_handshake
    /\ curr_liveness = Constructed.curr_liveness
    /\ envelope = Constructed.envelope
    /\ timed_out = Constructed.timed_out
    /\ connected = Constructed.connected
    /\ nOpen = Constructed.nOpen
    /\ nTickers = Constructed.nTickers
    /\ closeCount = Constructed.closeCount
    /\ armCount = Constructed.armCount
    /\ firstSent = Constructed.firstSent
    /\ readyCount = Constructed.readyCount
    /\ envChan = Constructed.envChan
    /\ overwrote = Constructed.overwrote
    /\ out = Constructed.out
    /\ calls = Constructed.calls
    /\ err = Constructed.err
    /\ lastOp = "init"
    /\ lastMsg = <<>>
    /\ lastBody = NoArg
    /\ quiet = 0
    /\ sinceDisc = -1
    /\ discFrom = -1

\* The PeriodicCallback fires: a started, not stopped ticker calls _tick.
Tick ==
    /\ nTickers > 0
    /\ lastOp' = "tick"
    /\ Commit(_tick(Begin(Self)))
    /\ lastMsg' = <<>>
    /\ lastBody' = NoArg
    /\ quiet' = IF quiet >= 0 THEN quiet + 1 ELSE -1
    /\ sinceDisc' = IF sinceDisc = 0 THEN 1
                    ELSE IF sinceDisc = 2 THEN 3 ELSE -1
    /\ discFrom' = IF sinceDisc \in {0, 2} THEN discFrom ELSE -1

\* The DelayedCallback fires once: _create_stream.
ReconnectFire ==
    /\ _delayed_cb = "pending"
    /\ lastOp' = "reconnect"
    /\ Commit(_create_stream([Begin(Self) EXCEPT !._delayed_cb = "fired"]))
    /\ lastMsg' = <<>>
    /\ lastBody' = NoArg
    /\ quiet' = 0
    /\ sinceDisc' = -1
    /\ discFrom' = -1

\* The stream delivers a frame list of M to on_recv.
OnMessageFrom(M) ==
    /\ nOpen > 0
    /\ \E msg \in M :
        /\ Commit(_on_message(Begin(Self), msg))
        /\ lastMsg' = msg
        /\ sinceDisc' = IF Len(msg) >= 3 /\ msg[3] = DISCONNECT THEN 0
                        ELSE IF Len(msg) >= 3 /\ sinceDisc \in {0, 2} THEN 2
                        ELSE -1
        /\ discFrom' = IF Len(msg) >= 3 /\ msg[3] = DISCONNECT
                       THEN curr_liveness
                       ELSE IF Len(msg) >= 3 /\ sinceDisc \in {0, 2}
                       THEN discFrom ELSE -1
    /\ lastOp' = "message"
    /\ lastBody' = NoArg
    /\ quiet' = -1

OnMessage == OnMessageFrom(InMsgs)

\* One frame list of each kind: what the timers do does not depend on the
\* frames after the command.
OnMessageLive == OnMessageFrom(LiveMsgs)

\* The application calls reply.
Reply ==
    /\ \E msg \in ReplyArgs :
        /\ Commit(reply(Begin(Self), msg))
        /\ lastBody' = msg
    /\ lastOp' = "reply"
    /\ lastMsg' = <<>>
    /\ sinceDisc' = -1
    /\ discFrom' = -1
    /\ UNCHANGED quiet

\* The application calls shutdown.
Shutdown ==
    /\ Commit(shutdown(Begin(Self)))
    /\ lastOp' = "shutdown"
    /\ lastMsg' = <<>>
    /\ lastBody' = NoArg
    /\ quiet' = -1
    /\ sinceDisc' = -1
    /\ discFrom' = -1

Next == Tick \/ ReconnectFire \/ OnMessage \/ Reply \/ Shutdown

Spec == Init /\ [][Next]_vars

LiveNext == Tick \/ ReconnectFire \/ OnMessageLive \/ Reply \/ Shutdown

\* The scheduler fires every timer that stays armed.
FairSpec ==
    Init /\ [][LiveNext]_vars /\ WF_vars(Tick) /\ WF_vars(ReconnectFire)

---------------------------------------------------------------------------
(* Properties *)

(* C1: starting from a fresh connect, after n <= HB_LIVENESS consecutive
   ticks with no inbound message in between the connection has not been
   declared dead: the channel is open, the heartbeat timer runs and no
   reconnect timer has been armed. *)
C1_AliveWithinThreshold ==
    quiet \in 0..HB_LIVENESS =>
        /\ stream = "open" /\ nOpen = 1
        /\ ticker = "running" /\ nTickers = 1
        /\ _delayed_cb # "pending" /\ armCount = 0
        /\ curr_liveness = HB_LIVENESS - quiet

C1_Witness ==
    /\ lastOp = "tick"
    /\ quiet = HB_LIVENESS
    /\ curr_liveness = 0
    /\ stream = "open"

(* C2: after exactly HB_LIVENESS + 1 consecutive ticks from a fresh connect
   with no inbound message the channel has been closed exactly once, the
   heartbeat timer is stopped and exactly one reconnect timer has been
   scheduled; before that tick nothing was closed and nothing scheduled. *)
C2_DeadAfterThresholdPlusOne ==
    /\ quiet = HB_LIVENESS + 1 =>
        /\ stream = "None" /\ nOpen = 0 /\ closeCount = 1
        /\ ticker = "None" /\ nTickers = 0
        /\ _delayed_cb = "pending" /\ armCount = 1
    /\ quiet \in 0..HB_LIVENESS => closeCount = 0 /\ armCount = 0
    /\ quiet <= HB_LIVENESS + 1

C2_Witness ==
    /\ lastOp = "tick"
    /\ quiet = HB_LIVENESS + 1
    /\ closeCount = 1
    /\ _delayed_cb = "pending"

(* C3 as stated: when _on_message returns from a frame list that carries
   delimiter, tag and command, whatever the command, the liveness counter
   equals HB_LIVENESS. *)
C3_AnyCommandResets ==
    lastOp = "message" /\ Len(lastMsg) >= 3 => curr_liveness = HB_LIVENESS

(* C3 amended: when _on_message returns from a frame list that carries
   delimiter, tag and command, the liveness counter equals HB_LIVENESS for
   every command other than DISCONNECT, and 0 for DISCONNECT. *)
C3_ResetsUnlessDisconnect ==
    lastOp = "message" /\ Len(lastMsg) >= 3 =>
        /\ err = "none"
        /\ curr_liveness = IF lastMsg[3] = DISCONNECT THEN 0 ELSE HB_LIVENESS

C3_Witness ==
    /\ lastOp = "message"
    /\ lastMsg = <<"", "XXXX", "x09">>
    /\ curr_liveness = HB_LIVENESS

(* C4: when a DISCONNECT is received on the open channel and the very next
   callback is a tick, that tick runs the dead-connection path (heartbeat
   timer stopped, channel closed, reconnect timer scheduled), whatever the
   liveness counter was before the DISCONNECT. *)
C4_DisconnectThenTickDies ==
    sinceDisc = 1 =>
        /\ lastOp = "tick"
        /\ stream = "None" /\ nOpen = 0 /\ closeCount = 1
        /\ ticker = "None" /\ nTickers = 0
        /\ _delayed_cb = "pending" /\ armCount = 1

C4_Witness ==
    /\ sinceDisc = 1
    /\ discFrom = HB_LIVENESS
    /\ lastOp = "tick"
    /\ _delayed_cb = "pending"

(* C5: after _on_message of ["", tag, REQUEST] + A + [""] + B, with A
   non-empty address frames and B any body frames, the pending envelope is
   ["", _proto_version, REPLY] + A + [""] and on_request was called exactly
   once, with exactly B. *)
C5_RequestSplit ==
    \A tag \in Tags, A \in AddrSeqs, B \in BodySeqs :
        lastOp = "message" /\ lastMsg = Request(tag, A, B) =>
            /\ err = "none"
            /\ envelope = List(<<"", _proto_version, REPLY>> \o A \o <<"">>)
            /\ calls = <<B>>
            /\ out = <<>>

C5_Witness ==
    /\ lastOp = "message"
    /\ lastMsg = <<"", _proto_version, REQUEST, "A1", "A2", "", "", "B1">>
    /\ envelope = List(<<"", _proto_version, REPLY, "A1", "A2", "">>)
    /\ calls = << <<"", "B1">> >>

(* C6: when a pending envelope E exists and the channel is open, reply
   hands exactly one frame list to the transport, E followed by the body
   frames in order (a single payload unit is a one-element body), and no
   pending envelope exists when reply returns. *)
C6_ReplySendsEnvelopeAndBody ==
    [][lastOp' = "reply" /\ envelope.kind = "list" /\ stream = "open" =>
        /\ err' = "none"
        /\ out' = << envelope.frames \o
                     (IF lastBody'.isList THEN lastBody'.items
                      ELSE <<lastBody'.unit>>) >>
        /\ envelope' = None]_vars

C6_Witness ==
    /\ lastOp = "reply"
    /\ lastBody = [isList |-> FALSE, unit |-> "R1", items |-> <<>>]
    /\ err = "none"
    /\ out = << <<"", _proto_version, REPLY, "A1", "A2", "", "R1">> >>
    /\ envelope = None

(* C7 as stated: reply called when no pending envelope exists (none was
   ever captured, or the last one was consumed) raises
   ConnectionNotReadyError and hands nothing to the transport. *)
C7_ReplyWithoutEnvelopeNotConnected ==
    [][lastOp' = "reply" /\ envelope.kind # "list" =>
        err' = "ConnectionNotReadyError" /\ out' = <<>>]_vars

(* C8: shutdown is idempotent: from every reachable state a second
   shutdown right after a first leaves every field as the first left it
   (no channel closed, no timer stopped), and neither call raises. *)
C8_ShutdownIdempotent ==
    LET once == shutdown(Begin(Self))
        twice == shutdown(Begin(once))
    IN  /\ once.err = "none"
        /\ twice = once
        /\ lastOp = "shutdown" => err = "none" /\ once = Self

C8_Witness ==
    /\ lastOp = "shutdown"
    /\ _delayed_cb = "pending"
    /\ stream = "None"
    /\ closeCount = 1
    /\ err = "none"

(* C9: every tick that declares the connection dead arms the reconnect
   timer; every armed reconnect timer eventually fires and _create_stream runs
   again (channel open, READY sent, liveness counter at HB_LIVENESS,
   heartbeat timer running); and when from some point on no message
   arrives, the connection is declared dead infinitely often, unless the
   application has shut the worker down (no channel, no reconnect timer
   armed). *)
C9_ReconnectForever ==
    /\ [](lastOp = "tick" /\ stream = "None" =>
            _delayed_cb = "pending" /\ armCount = 1)
    /\ (_delayed_cb = "pending") ~>
           (/\ lastOp = "reconnect"
            /\ _delayed_cb = "fired"
            /\ stream = "open" /\ nOpen = 1
            /\ out = <<ReadyMsg(Service)>>
            /\ curr_liveness = HB_LIVENESS
            /\ ticker = "running" /\ nTickers = 1)
    /\ <>[](lastOp # "message") =>
           \/ []<>(lastOp = "tick" /\ _delayed_cb = "pending")
           \/ <>[](stream = "None" /\ _delayed_cb # "pending")

C9_Witness ==
    /\ lastOp = "reconnect"
    /\ _delayed_cb = "fired"
    /\ stream = "open"
    /\ out = <<ReadyMsg(Service)>>
    /\ curr_liveness = HB_LIVENESS
    /\ ticker = "running"

(* C10: the heartbeat timer and the reconnect timer are never both active,
   and a heartbeat timer is only started by the firing of the reconnect
   timer. *)
C10_TimersExclusive ==
    /\ [](~((ticker = "running" \/ nTickers > 0) /\ _delayed_cb = "pending"))
    /\ [][nTickers' > nTickers =>
            _delayed_cb = "pending" /\ _delayed_cb' = "fired"]_vars

C10_Witness ==
    /\ lastOp = "tick"
    /\ _delayed_cb = "pending"
    /\ ticker = "None"
    /\ nTickers = 0

(* C11 as stated: after shutdown returns, from every reachable state,
   neither the heartbeat timer nor the reconnect timer is active and no
   channel is present, so _create_stream does not run again. *)
C11_ShutdownCancelsBothTimers ==
    lastOp = "shutdown" =>
        /\ ticker = "None" /\ nTickers = 0
        /\ _delayed_cb # "pending"
        /\ stream = "None" /\ nOpen = 0

(* C12 as stated: after shutdown returns, whether the application called it
   or the dead-connection path of a tick did, no pending envelope exists. *)
C12_ShutdownClearsEnvelope ==
    (lastOp = "shutdown" \/ (lastOp = "tick" /\ stream = "None")) =>
        envelope.kind # "list"

(* C13 as stated: _on_message of a frame list with fewer than three frames
   raises nothing, calls no handler, sends nothing and leaves the envelope,
   the timers and the channel as they were; the liveness counter is
   unchanged or at HB_LIVENESS. *)
C13_ShortMessageDropped ==
    [][lastOp' = "message" /\ Len(lastMsg') < 3 =>
        /\ err' = "none"
        /\ calls' = <<>> /\ out' = <<>>
        /\ envelope' = envelope
        /\ ticker' = ticker /\ nTickers' = nTickers
        /\ _delayed_cb' = _delayed_cb
        /\ stream' = stream /\ nOpen' = nOpen
        /\ curr_liveness' \in {curr_liveness, HB_LIVENESS}]_vars

(* C14: on every channel the worker opens, the initial one and each one
   rebuilt after a death, exactly one READY frame list
   ["", _proto_version, READY, service] is sent, and it is the first frame
   list sent on that channel. *)
C14_ReadyFirstOncePerChannel ==
    /\ readyCount = 1
    /\ firstSent = READY
    /\ lastOp \in {"init", "reconnect"} =>
           stream = "open" /\ out = <<ReadyMsg(Service)>>

C14_Witness ==
    /\ lastOp = "reconnect"
    /\ _delayed_cb = "fired"
    /\ out = << <<"", "MDPW01", READY, "echo">> >>
    /\ firstSent = READY
    /\ readyCount = 1

(* C15 as stated: _on_message of a frame list whose command is HEARTBEAT,
   READY, REPLY or unrecognized changes nothing but the liveness counter:
   no other attribute changes, no handler call, nothing sent, channel and
   timers as before. *)
C15_OtherCommandsOnlyResetLiveness ==
    [][(/\ lastOp' = "message"
        /\ Len(lastMsg') >= 3
        /\ lastMsg'[3] \notin {REQUEST, DISCONNECT}) =>
        /\ err' = "none"
        /\ curr_liveness' = HB_LIVENESS
        /\ need_handshake' = need_handshake
        /\ envelope' = envelope /\ envChan' = envChan
        /\ calls' = <<>> /\ out' = <<>>
        /\ stream' = stream /\ nOpen' = nOpen /\ closeCount' = closeCount
        /\ ticker' = ticker /\ nTickers' = nTickers
        /\ _delayed_cb' = _delayed_cb /\ armCount' = armCount
        /\ timed_out' = timed_out /\ connected' = connected]_vars

(* C15 amended: such a frame list changes nothing but the liveness counter,
   reset to HB_LIVENESS, and the need_handshake flag, which it clears: the
   envelope is unchanged, no handler call, nothing sent, channel and timers
   as before. *)
C15_OtherCommandsResetLivenessAndHandshake ==
    [][(/\ lastOp' = "message"
        /\ Len(lastMsg') >= 3
        /\ lastMsg'[3] \notin {REQUEST, DISCONNECT}) =>
        /\ err' = "none"
        /\ curr_liveness' = HB_LIVENESS
        /\ need_handshake' = FALSE
        /\ envelope' = envelope /\ envChan' = envChan
        /\ calls' = <<>> /\ out' = <<>>
        /\ stream' = stream /\ nOpen' = nOpen /\ closeCount' = closeCount
        /\ ticker' = ticker /\ nTickers' = nTickers
        /\ _delayed_cb' = _delayed_cb /\ armCount' = armCount
        /\ timed_out' = timed_out /\ connected' = connected]_vars

C15_Witness ==
    /\ lastOp = "message"
    /\ lastMsg = <<"", _proto_version, HEARTBEAT>>
    /\ envelope.kind = "list"
    /\ need_handshake = FALSE
    /\ curr_liveness = HB_LIVENESS
    /\ out = <<>> /\ calls = <<>>

(* C16: every tick decrements the liveness counter by exactly 1 and sends
   exactly one HEARTBEAT frame list on the open channel, also the tick that
   declares the connection dead (sent before the channel is closed); no
   HEARTBEAT is sent by anything but a tick, and none without a channel. *)
C16_TickDecrementsAndSendsHeartbeat ==
    /\ [][lastOp' = "tick" =>
            /\ stream = "open"
            /\ curr_liveness' = curr_liveness - 1
            /\ err' = "none"
            /\ out' = <<HeartbeatMsg>>]_vars
    /\ [](\A i \in 1..Len(out) : out[i] = HeartbeatMsg => lastOp = "tick")

C16_Witness ==
    /\ lastOp = "tick"
    /\ curr_liveness = -1
    /\ stream = "None"
    /\ out = << <<"", "MDPW01", HEARTBEAT>> >>
    /\ err = "none"

(* C17: at most one pending envelope exists: a REQUEST that arrives while
   the envelope of an earlier one is unconsumed replaces it, the next reply
   is addressed with the frames of the most recent REQUEST only, and a
   further reply, for the earlier REQUEST, sends nothing. *)
C17_SecondRequestOverwrites ==
    /\ [](overwrote =>
            /\ lastOp = "message"
            /\ \A tag \in Tags, A \in AddrSeqs, B \in BodySeqs :
                   lastMsg = Request(tag, A, B) =>
                       envelope =
                           List(<<"", _proto_version, REPLY>> \o A \o <<"">>))
    /\ [][(/\ lastOp' = "message"
           /\ Len(lastMsg') >= 3
           /\ lastMsg'[3] = REQUEST
           /\ envelope.kind = "list") => overwrote']_vars
    /\ [][lastOp' = "reply" =>
            IF envelope.kind = "list" /\ stream = "open"
            THEN /\ Len(out') = 1
                 /\ SubSeq(out'[1], 1, Len(envelope.frames)) = envelope.frames
                 /\ envelope' = None
            ELSE out' = <<>>]_vars

C17_Witness ==
    /\ lastOp = "message"
    /\ overwrote
    /\ lastMsg = <<"", _proto_version, REQUEST, "A2", "", "B1">>
    /\ envelope = List(<<"", _proto_version, REPLY, "A2", "">>)

(* C18: _create_stream only runs when no channel is present: at most one
   channel is open and at most one heartbeat timer is running, and a channel
   is only created when the one before it has been closed. *)
C18_OneChannelAtATime ==
    /\ [](/\ nOpen = (IF stream = "open" THEN 1 ELSE 0)
          /\ nTickers = (IF ticker = "running" THEN 1 ELSE 0)
          /\ ticker = "running" => stream = "open")
    /\ [][nOpen' > nOpen =>
            /\ stream = "None" /\ nOpen = 0
            /\ ticker = "None" /\ nTickers = 0
            /\ closeCount > 0]_vars

C18_Witness ==
    /\ lastOp = "reconnect"
    /\ stream = "open" /\ nOpen = 1
    /\ ticker = "running" /\ nTickers = 1
    /\ timed_out = "False"

(* C19: when, after a DISCONNECT and before the next tick, a frame list
   with another command arrives, the liveness counter is back at
   HB_LIVENESS and the next tick does not run the dead-connection path: the
   channel stays open and no reconnect is scheduled. *)
C19_TrafficCancelsDisconnect ==
    /\ sinceDisc = 2 =>
        /\ lastOp = "message"
        /\ curr_liveness = HB_LIVENESS
        /\ stream = "open"
    /\ sinceDisc = 3 =>
        /\ lastOp = "tick"
        /\ curr_liveness = HB_LIVENESS - 1
        /\ stream = "open" /\ nOpen = 1 /\ closeCount = 0
        /\ ticker = "running" /\ nTickers = 1
        /\ _delayed_cb # "pending" /\ armCount = 0

C19_Witness ==
    /\ sinceDisc = 3
    /\ lastOp = "tick"
    /\ stream = "open"
    /\ ticker = "running"
    /\ _delayed_cb = "None"

(* C20 as stated: a REPLY is only sent on the channel its REQUEST was
   received on: reply sends nothing from an envelope captured on an earlier
   channel, and nothing while no channel is present. *)
C20_ReplyOnRequestChannelOnly ==
    [][lastOp' = "reply" /\ out' # <<>> =>
        stream = "open" /\ envChan = "current"]_vars

=============================================================================
